---- MODULE Spec2Model ----
(***************************************************************************)
(* Model of src/src/components/FlappyBird.tsx: the React component's game  *)
(* state (bird, pipes, gameStarted, gameOver, score) and the three         *)
(* operations that change it: jump, resetGame and the gameLoop interval    *)
(* callback.                                                               *)
(*                                                                         *)
(* Lengths are in tenths of a pixel so that GRAVITY = 0.4 is an integer.   *)
(* In Spec each handler is one atomic step: the state updates it queues    *)
(* are applied, and the component re-rendered with its effects run, before *)
(* the next handler runs, so the closures of jump and of the interval      *)
(* callback hold the committed state.  SpecAsync lets a key press arrive   *)
(* after a tick's updates and before the effects have re-registered the    *)
(* key handler, so that jump runs with the closure of the previous render. *)
(* SpecFall is one game in which the player stops pressing at some point,  *)
(* with the interval firing as long as it exists.  Every queued updater    *)
(* function runs exactly once.                                             *)
(* isFlapping and Pipe.id are rendering data only (CSS class and React     *)
(* key) and are left out.                                                  *)
(***************************************************************************)
EXTENDS Integers, Sequences, FiniteSets

\* ---- program constants (tenths of a pixel) -------------------------------
BIRD_SIZE == 240
PIPE_WIDTH == 600
PIPE_GAP == 1500
GRAVITY == 4
JUMP_FORCE == -80
PIPE_SPEED == 20
GROUND_HEIGHT == 600
gameHeight == 5000
gameWidth == 8000
BirdStartX == 1000
BirdStartY == 2500
SpawnSpacing == 3000
minHeight == 500
maxHeight == gameHeight - GROUND_HEIGHT - PIPE_GAP - minHeight

\* ---- bounds ---------------------------------------------------------------
\* The run is cut once the score reaches MaxScore (score is unbounded in the
\* program).
MaxScore == 2
\* Math.random() is drawn from NumRandom evenly spaced values of [0, 1).
NumRandom == 2
\* The player presses only when the bird's velocity is JUMP_FORCE + k*GRAVITY
\* for a k in JumpDelays, i.e. k ticks after the previous press, or when the
\* bird has not moved yet.
JumpDelays == {1, 31, 41}
\* The delays of the presses in SpecAsync.
AsyncJumpDelays == {41}
\* The delays of the presses in SpecFall (a subset of JumpDelays).
FallJumpDelays == {31}

VARIABLES bird, pipes, gameStarted, gameOver, score, lastOp, pre, pruned,
          seen, handsOff

vars == <<bird, pipes, gameStarted, gameOver, score, lastOp, pre, pruned,
          seen, handsOff>>

\* ---- state --------------------------------------------------------------
InitialBird == [x |-> BirdStartX, y |-> BirdStartY, velocity |-> 0]

\* The game state as one record (what a history variable remembers).
Snapshot == [bird |-> bird, pipes |-> pipes, gameStarted |-> gameStarted,
             gameOver |-> gameOver, score |-> score, op |-> lastOp]

\* The state of a render: what the closures created in that render hold.
Rendered == [bird |-> bird, pipes |-> pipes, gameStarted |-> gameStarted,
             gameOver |-> gameOver, score |-> score]

Phase(started, over) == IF over THEN "Over" ELSE IF started THEN "Running" ELSE "Idle"

phase == Phase(gameStarted, gameOver)
prePhase == Phase(pre.gameStarted, pre.gameOver)

\* ---- generatePipe -------------------------------------------------------
\* Math.random() * (maxHeight - minHeight) + minHeight for random = r/NumRandom
RandomTopHeights == {((r * (maxHeight - minHeight)) \div NumRandom) + minHeight : r \in 0..(NumRandom - 1)}

generatePipe_NoGap(x, topHeight) ==
  [x |-> x, topHeight |-> topHeight,
   bottomHeight |-> gameHeight - GROUND_HEIGHT - topHeight,
   passed |-> FALSE]

generatePipe(x, topHeight) ==
  [x |-> x, topHeight |-> topHeight,
   bottomHeight |-> gameHeight - GROUND_HEIGHT - topHeight - PIPE_GAP,
   passed |-> FALSE]

\* ---- setBird updater of the game loop -------------------------------------
GroundLimit == gameHeight - GROUND_HEIGHT - BIRD_SIZE

HitsGround_NoBirdSize(prev) == prev.y + prev.velocity > gameHeight - GROUND_HEIGHT

HitsGround(prev) == prev.y + prev.velocity > GroundLimit

BirdUpdater_NoCeiling(prev) ==
  LET newY == prev.y + prev.velocity
      newVelocity == prev.velocity + GRAVITY
  IN IF HitsGround(prev) THEN prev
     ELSE [prev EXCEPT !.y = newY, !.velocity = newVelocity]

BirdUpdater_NoGravity(prev) ==
  LET newY == prev.y + prev.velocity
  IN IF HitsGround(prev) THEN prev
     ELSE IF newY < 0 THEN [prev EXCEPT !.y = 0, !.velocity = 0]
     ELSE [prev EXCEPT !.y = newY]

BirdUpdater_PostGravityVelocity(prev) ==
  LET newVelocity == prev.velocity + GRAVITY
      newY == prev.y + newVelocity
  IN IF HitsGround(prev) THEN prev
     ELSE IF newY < 0 THEN [prev EXCEPT !.y = 0, !.velocity = 0]
     ELSE [prev EXCEPT !.y = newY, !.velocity = newVelocity]

BirdUpdater_FallThrough(prev) ==
  LET newY == prev.y + prev.velocity
      newVelocity == prev.velocity + GRAVITY
  IN IF newY < 0 THEN [prev EXCEPT !.y = 0, !.velocity = 0]
     ELSE [prev EXCEPT !.y = newY, !.velocity = newVelocity]

BirdUpdater(prev) ==
  LET newY == prev.y + prev.velocity
      newVelocity == prev.velocity + GRAVITY
  IN IF HitsGround(prev) THEN prev
     ELSE IF newY < 0 THEN [prev EXCEPT !.y = 0, !.velocity = 0]
     ELSE [prev EXCEPT !.y = newY, !.velocity = newVelocity]

\* ---- setPipes updater of the game loop ------------------------------------
MovePipe(pipe) == [pipe EXCEPT !.x = pipe.x - PIPE_SPEED]

OnScreen(pipe) == pipe.x > -PIPE_WIDTH

MoveAndFilter(prev) == SelectSeq([i \in DOMAIN prev |-> MovePipe(prev[i])], OnScreen)

NeedsPipe_Inclusive(newPipes) ==
  Len(newPipes) = 0 \/ newPipes[Len(newPipes)].x <= gameWidth - SpawnSpacing

NeedsPipe(newPipes) ==
  Len(newPipes) = 0 \/ newPipes[Len(newPipes)].x < gameWidth - SpawnSpacing

Advance_Unshift(prev, topHeight) ==
  LET newPipes == MoveAndFilter(prev)
  IN IF NeedsPipe(newPipes) THEN <<generatePipe(gameWidth, topHeight)>> \o newPipes
     ELSE newPipes

\* newPipes after the optional push
Advance(prev, topHeight) ==
  LET newPipes == MoveAndFilter(prev)
  IN IF NeedsPipe(newPipes) THEN Append(newPipes, generatePipe(gameWidth, topHeight))
     ELSE newPipes

Scores_NoPassedGuard(b, pipe) == b.x > pipe.x + PIPE_WIDTH

\* b is the bird of the render the interval callback was created in
Scores(b, pipe) == ~pipe.passed /\ b.x > pipe.x + PIPE_WIDTH

Collides(b, pipe) ==
  /\ b.x + BIRD_SIZE > pipe.x
  /\ b.x < pipe.x + PIPE_WIDTH
  /\ \/ b.y < pipe.topHeight
     \/ b.y + BIRD_SIZE > gameHeight - GROUND_HEIGHT - pipe.bottomHeight

MarkPassed_Never(b, pipe) == pipe

MarkPassed(b, pipe) == IF Scores(b, pipe) THEN [pipe EXCEPT !.passed = TRUE] ELSE pipe

\* the array returned by the updater, after the forEach has mutated it
PipesUpdater(prev, b, topHeight) ==
  LET newPipes == Advance(prev, topHeight)
  IN [i \in DOMAIN newPipes |-> MarkPassed(b, newPipes[i])]

\* how many times the forEach calls setScore(s => s + 1)
ScoreDelta(prev, b, topHeight) ==
  LET newPipes == Advance(prev, topHeight)
  IN Cardinality({i \in DOMAIN newPipes : Scores(b, newPipes[i])})

\* whether the forEach calls setGameOver(true)
PipeHit(prev, b, topHeight) ==
  LET newPipes == Advance(prev, topHeight)
  IN \E i \in DOMAIN newPipes : Collides(b, newPipes[i])

\* pipes the filter of this tick removes that had been scored
PrunedPassed(prev) ==
  Cardinality({i \in DOMAIN prev : ~OnScreen(MovePipe(prev[i])) /\ prev[i].passed})

\* ---- operations -----------------------------------------------------------
\* Each operation is a function from the state it is called in to the state
\* its updates produce (s is a Snapshot; the op field is history only).
resetGame_KeepScore(s) ==
  [s EXCEPT !.bird = InitialBird, !.pipes = <<>>,
            !.gameOver = FALSE, !.gameStarted = FALSE]

resetGame(s) ==
  [s EXCEPT !.bird = InitialBird, !.pipes = <<>>, !.score = 0,
            !.gameOver = FALSE, !.gameStarted = FALSE]

JumpBird_Additive(prev) == [prev EXCEPT !.velocity = prev.velocity + JUMP_FORCE]

JumpBird(prev) == [prev EXCEPT !.velocity = JUMP_FORCE]

jump_Restart(s) ==
  IF ~s.gameStarted THEN [s EXCEPT !.gameStarted = TRUE]
  ELSE IF s.gameOver THEN resetGame(s)
  ELSE [s EXCEPT !.bird = JumpBird(s.bird)]

jump_ImpulseOnStart(s) ==
  IF ~s.gameStarted THEN [s EXCEPT !.gameStarted = TRUE, !.bird = JumpBird(s.bird)]
  ELSE IF s.gameOver THEN s
  ELSE [s EXCEPT !.bird = JumpBird(s.bird)]

jump_NoOverCheck(s) ==
  IF ~s.gameStarted THEN [s EXCEPT !.gameStarted = TRUE]
  ELSE [s EXCEPT !.bird = JumpBird(s.bird)]

jump(s) ==
  IF ~s.gameStarted THEN [s EXCEPT !.gameStarted = TRUE]
  ELSE IF s.gameOver THEN s
  ELSE [s EXCEPT !.bird = JumpBird(s.bird)]

LoopRunning_NoStartCheck(started, over) == ~over

\* the interval exists only while the effect's guard lets it be created
LoopRunning(started, over) == ~(~started \/ over)

gameLoop_NoGameOver(s, topHeight) ==
  IF ~LoopRunning(s.gameStarted, s.gameOver) THEN s
  ELSE [s EXCEPT !.bird = BirdUpdater(s.bird),
                 !.pipes = PipesUpdater(s.pipes, s.bird, topHeight),
                 !.score = s.score + ScoreDelta(s.pipes, s.bird, topHeight)]

\* one run of the interval callback: both updaters are queued and applied,
\* with the setScore and setGameOver calls they make
gameLoop(s, topHeight) ==
  IF ~LoopRunning(s.gameStarted, s.gameOver) THEN s
  ELSE [s EXCEPT !.bird = BirdUpdater(s.bird),
                 !.pipes = PipesUpdater(s.pipes, s.bird, topHeight),
                 !.score = s.score + ScoreDelta(s.pipes, s.bird, topHeight),
                 !.gameOver = s.gameOver \/ HitsGround(s.bird)
                                \/ PipeHit(s.pipes, s.bird, topHeight)]

Init ==
  /\ bird = InitialBird
  /\ pipes = <<>>
  /\ gameStarted = FALSE
  /\ gameOver = FALSE
  /\ score = 0
  /\ lastOp = "init"
  /\ pruned = 0
  /\ pre = [bird |-> InitialBird, pipes |-> <<>>, gameStarted |-> FALSE,
            gameOver |-> FALSE, score |-> 0, op |-> "init"]
  /\ seen = [bird |-> InitialBird, pipes |-> <<>>, gameStarted |-> FALSE,
             gameOver |-> FALSE, score |-> 0]
  /\ handsOff = FALSE

\* the state variables take the fields of n; pre and lastOp record the step
Becomes(n, op) ==
  /\ bird' = n.bird
  /\ pipes' = n.pipes
  /\ gameStarted' = n.gameStarted
  /\ gameOver' = n.gameOver
  /\ score' = n.score
  /\ lastOp' = op
  /\ pre' = Snapshot

\* the component re-renders and its effects run: the key handler and the
\* interval are re-created from the new state
EffectsRun == seen' = Rendered'

\* the presses the model enumerates
PressAllowed ==
  (gameStarted /\ ~gameOver) =>
    \/ \E k \in JumpDelays : bird.velocity = JUMP_FORCE + k * GRAVITY
    \/ bird = InitialBird

Jump ==
  /\ PressAllowed
  /\ Becomes(jump(Snapshot), "jump")
  /\ EffectsRun
  /\ UNCHANGED <<pruned, handsOff>>

ResetGame ==
  /\ Becomes(resetGame(Snapshot), "reset")
  /\ EffectsRun
  /\ pruned' = 0
  /\ UNCHANGED handsOff

\* the updates of one run of the interval callback
Tick ==
  /\ score < MaxScore
  /\ \E topHeight \in RandomTopHeights :
       Becomes(gameLoop(Snapshot, topHeight), "tick")
  /\ pruned' = IF LoopRunning(gameStarted, gameOver)
                 THEN pruned + PrunedPassed(pipes) ELSE pruned
  /\ UNCHANGED handsOff

GameLoop == Tick /\ EffectsRun

Next == Jump \/ ResetGame \/ GameLoop

Spec == Init /\ [][Next]_vars

\* ---- a key press between a tick and the effects of its render ------------
\* jump as created in a render with state c (useCallback deps gameStarted,
\* gameOver), called when the state is s
jumpWith(c, s) ==
  IF ~c.gameStarted THEN [s EXCEPT !.gameStarted = TRUE]
  ELSE IF c.gameOver THEN s
  ELSE [s EXCEPT !.bird = JumpBird(s.bird)]

\* the registered key handler is the one of an earlier render
Stale == seen # Rendered

\* the player presses on what the last rendered frame showed, c, when the
\* bird of that frame is falling at the steady rhythm's velocity or has not
\* moved yet
PressAllowedSeen(c) ==
  (c.gameStarted /\ ~c.gameOver) =>
    \/ \E k \in AsyncJumpDelays : c.bird.velocity = JUMP_FORCE + k * GRAVITY
    \/ c.bird = InitialBird

JumpSynced == ~Stale /\ PressAllowedSeen(seen) /\ Jump

\* the interval callback has run; the effects of the new render have not
TickQueued ==
  /\ ~Stale
  /\ Tick
  /\ UNCHANGED seen

KeyDownStale ==
  /\ Stale
  /\ PressAllowedSeen(seen)
  /\ Becomes(jumpWith(seen, Snapshot), "jump")
  /\ UNCHANGED <<seen, pruned, handsOff>>

EffectsFlush ==
  /\ Stale
  /\ seen' = Rendered
  /\ UNCHANGED <<bird, pipes, gameStarted, gameOver, score, lastOp, pre,
                 pruned, handsOff>>

NextAsync == JumpSynced \/ ResetGame \/ TickQueued \/ KeyDownStale \/ EffectsFlush

SpecAsync == Init /\ [][NextAsync]_vars

\* ---- one game in which the player stops pressing ---------------------------
PressAllowedFall ==
  (gameStarted /\ ~gameOver) =>
    \/ \E k \in FallJumpDelays : bird.velocity = JUMP_FORCE + k * GRAVITY
    \/ bird = InitialBird

JumpFall == ~handsOff /\ PressAllowedFall /\ Jump

\* from here on there is no key press, click or touch; a fall scores at most
\* once, so the run is not cut by MaxScore before it ends
LetGo ==
  /\ ~handsOff
  /\ gameStarted /\ ~gameOver
  /\ score + 1 < MaxScore
  /\ handsOff' = TRUE
  /\ UNCHANGED <<bird, pipes, gameStarted, gameOver, score, lastOp, pre,
                 pruned, seen>>

NextFall == JumpFall \/ GameLoop \/ LetGo

\* setInterval keeps firing while the interval exists
SpecFall == Init /\ [][NextFall]_vars /\ WF_vars(GameLoop)

\* ---- properties -----------------------------------------------------------
\* the pipe of the previous state that pipe p of this state was, if any
Before(p) == {j \in DOMAIN pre.pipes : pre.pipes[j].x - PIPE_SPEED = p.x}

PassedCount(ps) == Cardinality({i \in DOMAIN ps : ps[i].passed})

RanTick == lastOp = "tick" /\ prePhase = "Running"

SameGame ==
  /\ bird = pre.bird
  /\ pipes = pre.pipes
  /\ score = pre.score
  /\ gameStarted = pre.gameStarted
  /\ gameOver = pre.gameOver

\* pipes of this state that the last tick marked passed
NewlyPassed ==
  {i \in DOMAIN pipes :
     pipes[i].passed /\ \A j \in Before(pipes[i]) : ~pre.pipes[j].passed}

\* C1: a tick adds exactly 1 to the score for each pipe that is not yet passed
\* and has its right edge left of the bird after the move, marks that pipe
\* passed, and marks no other; a passed pipe stays passed, so the score is
\* never incremented for it again; jumps leave score and flags alone.
C1_ScoreOncePerPipe ==
  /\ RanTick =>
       /\ \A i \in DOMAIN pipes : \A j \in Before(pipes[i]) :
            /\ pre.pipes[j].passed => pipes[i].passed
            /\ ~pre.pipes[j].passed =>
                 (pipes[i].passed <=> pre.bird.x > pipes[i].x + PIPE_WIDTH)
       /\ \A i \in DOMAIN pipes : Before(pipes[i]) = {} => ~pipes[i].passed
       /\ score = pre.score + Cardinality(NewlyPassed)
       /\ Cardinality(NewlyPassed) <= 1
  /\ lastOp = "jump" => score = pre.score /\ pipes = pre.pipes

C1_Witness == RanTick /\ score = pre.score + 1 /\ Cardinality(NewlyPassed) = 1

\* C2 (as claimed): score equals the number of pipes in the sequence whose
\* passed flag is true.
C2_ScoreEqualsPassedInSequence == score = PassedCount(pipes)

\* C2 (amended): score equals the number of passed pipes in the sequence plus
\* the number of passed pipes the filter has removed since the last reset.
C2_ScoreCountsPrunedToo == score = PassedCount(pipes) + pruned

C2_Witness == RanTick /\ pruned = 1 /\ score = 1 /\ PassedCount(pipes) = 0

\* C3: after a jump or a tick in phase Over the phase is still Over; only
\* resetGame leaves Over.
C3_OverIsTerminal ==
  /\ (prePhase = "Over" /\ lastOp \in {"jump", "tick"}) => phase = "Over"
  /\ (prePhase = "Over" /\ phase # "Over") => lastOp = "reset"

C3_Witness == prePhase = "Over" /\ lastOp = "jump" /\ pre.op = "tick" /\ phase = "Over"

\* C4: a jump in Idle starts the run and changes neither bird, pipes nor score.
C4_FirstJumpOnlyStarts ==
  (lastOp = "jump" /\ prePhase = "Idle") =>
    /\ phase = "Running"
    /\ bird = pre.bird
    /\ pipes = pre.pipes
    /\ score = pre.score

C4_Witness == lastOp = "jump" /\ prePhase = "Idle" /\ phase = "Running"

\* C5: a jump in Running overwrites the velocity with JUMP_FORCE and changes
\* nothing else.
C5_JumpOverwritesVelocity ==
  (lastOp = "jump" /\ prePhase = "Running") =>
    /\ bird.velocity = JUMP_FORCE
    /\ bird.y = pre.bird.y
    /\ bird.x = pre.bird.x
    /\ pipes = pre.pipes
    /\ score = pre.score
    /\ phase = "Running"

C5_Witness ==
  /\ lastOp = "jump" /\ prePhase = "Running"
  /\ pre.bird.velocity > 0 /\ bird.velocity = JUMP_FORCE

\* C6: a jump in Over changes nothing.
C6_JumpInOverIsNoOp == (lastOp = "jump" /\ prePhase = "Over") => SameGame

C6_Witness ==
  /\ lastOp = "jump" /\ prePhase = "Over" /\ phase = "Over"
  /\ bird.velocity # JUMP_FORCE

\* C7: a tick in Idle or Over changes nothing.
C7_TickOutsideRunningIsNoOp ==
  (lastOp = "tick" /\ prePhase \in {"Idle", "Over"}) => SameGame

C7_Witness == lastOp = "tick" /\ prePhase = "Over" /\ Len(pipes) > 0

\* C8: after resetGame the state is the initial one, whatever the state
\* before; a second resetGame in a row gives the same state again.
C8_ResetGivesFreshState ==
  lastOp = "reset" =>
    /\ phase = "Idle"
    /\ score = 0
    /\ pipes = <<>>
    /\ bird = [x |-> BirdStartX, y |-> BirdStartY, velocity |-> 0]
    /\ pre.op = "reset" => SameGame

C8_Witness == lastOp = "reset" /\ pre.op = "reset" /\ phase = "Idle"

\* C9: the bird's y is never negative; a tick whose new y would be negative
\* stores y = 0 and velocity = 0, and the game ends on that tick only if a
\* pipe is hit.
C9_CeilingClamp ==
  /\ bird.y >= 0
  /\ (RanTick /\ pre.bird.y + pre.bird.velocity < 0) =>
       /\ bird.y = 0
       /\ bird.velocity = 0
       /\ gameOver => \E i \in DOMAIN pipes : Collides(pre.bird, pipes[i])

C9_Witness ==
  /\ RanTick /\ pre.bird.y + pre.bird.velocity < 0
  /\ bird.y = 0 /\ ~gameOver

\* C10: a tick in Running whose new y would exceed 416 px sets the phase to
\* Over and leaves the bird as it was.
C10_GroundEndsGame ==
  /\ GroundLimit = 4160
  /\ (RanTick /\ pre.bird.y + pre.bird.velocity > 4160) =>
       /\ phase = "Over"
       /\ bird = pre.bird

C10_Witness ==
  /\ RanTick /\ pre.bird.y + pre.bird.velocity > 4160
  /\ phase = "Over" /\ bird.y <= 4160

\* C11 (as claimed): on the tick that ends the game through a ground
\* collision the pipes and the score are the same after the tick as before.
C11_PipesFrozenOnGroundHit ==
  (RanTick /\ HitsGround(pre.bird)) => (pipes = pre.pipes /\ score = pre.score)

\* pipes of this state that were in the sequence before the last tick, and
\* the ones the last tick pushed
Survivors == {i \in DOMAIN pipes : Before(pipes[i]) # {}}
Spawned == {i \in DOMAIN pipes : Before(pipes[i]) = {}}

\* C13: every pipe has minHeight <= topHeight <= maxHeight and
\* topHeight + PIPE_GAP + bottomHeight = gameHeight - GROUND_HEIGHT, and a
\* tick changes neither height of a pipe it keeps.
C13_GapGeometry ==
  /\ \A i \in DOMAIN pipes :
       /\ minHeight <= pipes[i].topHeight
       /\ pipes[i].topHeight <= gameHeight - GROUND_HEIGHT - PIPE_GAP - minHeight
       /\ pipes[i].topHeight + PIPE_GAP + pipes[i].bottomHeight
            = gameHeight - GROUND_HEIGHT
  /\ RanTick =>
       \A i \in DOMAIN pipes : \A j \in Before(pipes[i]) :
         /\ pipes[i].topHeight = pre.pipes[j].topHeight
         /\ pipes[i].bottomHeight = pre.pipes[j].bottomHeight

C13_Witness ==
  /\ RanTick /\ Len(pipes) >= 2 /\ Survivors = DOMAIN pipes
  /\ pipes[1].topHeight # pipes[2].topHeight

\* C14 (as claimed): a tick after which the bird's box overlaps a pipe
\* horizontally and lies above the gap's top or below its bottom ends the
\* game, so no Running state has the bird inside a pipe.
C14_CollisionOnNewPositions ==
  /\ RanTick /\ (\E i \in DOMAIN pipes : Collides(bird, pipes[i])) => phase = "Over"
  /\ phase = "Running" => \A i \in DOMAIN pipes : ~Collides(bird, pipes[i])

\* C16: a tick in Running that hits neither ground nor ceiling stores
\* y + velocity (the velocity before gravity) and velocity + GRAVITY.
C16_EulerStep ==
  (/\ RanTick
   /\ ~(pre.bird.y + pre.bird.velocity > GroundLimit)
   /\ ~(pre.bird.y + pre.bird.velocity < 0)) =>
    /\ bird.y = pre.bird.y + pre.bird.velocity
    /\ bird.velocity = pre.bird.velocity + GRAVITY

C16_Witness ==
  /\ RanTick /\ pre.op = "tick" /\ pre.bird.velocity > 0
  /\ bird.y = pre.bird.y + pre.bird.velocity
  /\ bird.velocity = pre.bird.velocity + GRAVITY

\* C17: a tick pushes at most one pipe; it pushes one exactly when, after
\* moving and filtering, no pipe is left or the last one has
\* x < gameWidth - 300; the pushed pipe is last, at x = gameWidth, not passed.
C17_SpawnRule ==
  RanTick =>
    /\ Cardinality(Spawned) <= 1
    /\ (Spawned # {}) <=>
         \/ Survivors = {}
         \/ LET last == CHOOSE i \in Survivors : \A j \in Survivors : j <= i
            IN pipes[last].x < gameWidth - SpawnSpacing
    /\ \A i \in Spawned :
         /\ i = Len(pipes)
         /\ pipes[i].x = gameWidth
         /\ ~pipes[i].passed

C17_Witness ==
  /\ RanTick /\ Cardinality(Spawned) = 1 /\ Survivors # {}
  /\ pipes[Len(pipes)].x = gameWidth

\* C18 (as claimed): the pipe sequence is ordered by descending x.
C18_DescendingByX ==
  \A i, j \in DOMAIN pipes : i < j => pipes[i].x >= pipes[j].x

\* C18 (amended): the pipe sequence is ordered by strictly ascending x, the
\* oldest pipe first.
C18_AscendingByX ==
  \A i, j \in DOMAIN pipes : i < j => pipes[i].x < pipes[j].x

C18_Witness == Len(pipes) = 3 /\ pipes[1].x < pipes[2].x /\ pipes[2].x < pipes[3].x

\* C20: the bird's y stays within [0, gameHeight - GROUND_HEIGHT - BIRD_SIZE]
\* (416 px); a tick whose new y would exceed the limit keeps the old bird.
C20_BirdStaysInField ==
  /\ gameHeight - GROUND_HEIGHT - BIRD_SIZE = 4160
  /\ bird.y \in 0..4160
  /\ (RanTick /\ pre.bird.y + pre.bird.velocity > 4160) => bird.y = pre.bird.y

C20_Witness ==
  /\ RanTick /\ bird.y + bird.velocity > 4160
  /\ bird.y \in 0..4160 /\ bird.y = pre.bird.y /\ bird.y > BirdStartY

\* a jump in Running from the start position with velocity 0 (no tick has
\* run yet: the first tick pushes a pipe), followed by one tick
JumpThenTickFromStart ==
  /\ RanTick /\ pre.op = "jump"
  /\ pre.pipes = <<>>
  /\ pre.bird.y = 2500 /\ pre.bird.velocity = JUMP_FORCE
  /\ GRAVITY = 4 /\ JUMP_FORCE = -80

\* C12 (as claimed): from y = 250, velocity 0 in Running, jump then one tick
\* gives velocity -7.6 and y = 242.4.
C12_JumpThenTickPostGravity ==
  JumpThenTickFromStart => (bird.velocity = -76 /\ bird.y = 2424)

\* C12 (amended): from y = 250, velocity 0 in Running, jump then one tick
\* gives velocity -7.6 and y = 242.
C12_JumpThenTick ==
  JumpThenTickFromStart => (bird.velocity = -76 /\ bird.y = 2420)

C12_Witness == JumpThenTickFromStart /\ bird.velocity = -76 /\ bird.y = 2420

\* the state is a (as far as the game goes)
Is(a) ==
  /\ bird = a.bird
  /\ pipes = a.pipes
  /\ score = a.score
  /\ gameStarted = a.gameStarted
  /\ gameOver = a.gameOver

\* C15 (as claimed): the state after a jump is the one of an atomic jump
\* in the state before it (tick-then-jump) or, when the press fell between a
\* tick and its render's effects, of jump-then-tick from the state before
\* that tick; a jump in phase Over leaves the bird alone.
C15_JumpSerializedWithTick ==
  /\ lastOp = "jump" =>
       \/ Is(jump(pre))
       \/ Stale /\ \E topHeight \in RandomTopHeights :
                     Is(gameLoop(jump(seen), topHeight))
  /\ (lastOp = "jump" /\ prePhase = "Over") => bird = pre.bird

\* C19: once the player has stopped pressing in a Running game, and ticks
\* keep coming, the phase eventually is Over.
C19_FallEndsGame == (handsOff /\ phase = "Running") ~> (phase = "Over")

C19_Witness ==
  /\ handsOff /\ lastOp = "tick" /\ prePhase = "Running" /\ phase = "Over"
  /\ pre.op = "tick"

====
